---- MODULE Spec2Model ----
(***************************************************************************)
(* Model of package lines (src/lines/lines.go): a Reader that wraps an     *)
(* io.Reader, records the offsets following each '\n' it passes through,   *)
(* and maps byte offsets to 1-based (line, column) pairs.                  *)
(*                                                                         *)
(* Contexts: "rd" calls Read, "rs" calls Reset, the Queriers call          *)
(* Position, Line, Column and Size.  Every method is split at the points   *)
(* where another goroutine can run: acquiring the sync.RWMutex, the call   *)
(* into the wrapped source, each iteration of the scan loop, each field    *)
(* assignment of Reset.  An argument is drawn at the step that first reads *)
(* it (p at the call into the source, nr at r.r = nr, a query's offset     *)
(* once the shared lock is held, the bytes p already holds where the       *)
(* source writes into it); a call's locals are dropped on return.          *)
(***************************************************************************)
EXTENDS Integers, Sequences, FiniteSets, TLC

\* ---- bounds ----
MaxLen == 3      \* bytes a source still holds when it is bound
BufCap == 2      \* capacity of the buffer handed to Read
IntBits == 6     \* width of int64 and int, scaled down from 64
LiveLen == 1     \* bytes a source holds under the fair specification

\* ---- program constants ----
NL == 10         \* '\n'

Bytes == {NL, 97}
Errs == {"nil", "EOF", "err"}
Queriers == {"q1", "q2"}
Writers == {"rd", "rs"}
Threads == Writers \cup Queriers
None == "none"
QueryOps == {"Position", "Line", "Column", "Size"}

MaxInt64 == 2^(IntBits - 1) - 1
\* two's-complement wrap-around of int64 (and of int on 64-bit builds)
Wrap64(x) == ((x + 2^(IntBits - 1)) % 2^IntBits) - 2^(IntBits - 1)

QueryOffsets == {-1, 0, 1, MaxInt64}

Min(a, b) == IF a < b THEN a ELSE b

RECURSIVE SeqsUpTo(_)
SeqsUpTo(n) ==
  IF n = 0 THEN {<<>>}
  ELSE LET S == SeqsUpTo(n - 1)
       IN S \cup {Append(s, b) : s \in {t \in S : Len(t) = n - 1}, b \in Bytes}
\* the sources a wrapper can be bound to, each given by the bytes it will yield
Sources == SeqsUpTo(MaxLen)

VARIABLES
  mu,         \* Reader.mu: [writer, excl, readers]
  rr,         \* Reader.r: the bytes the bound source has not yielded yet
  offs,       \* Reader.offs
  lines,      \* Reader.lines
  delivered,  \* the bytes the bound source has yielded since it was bound
  buf,        \* the backing array of Read's p, while a Read is in progress
  pc,         \* position of every context
  rdL,        \* Read's p, n, err, i and what the source returned
  nr,         \* Reset's argument
  qL          \* the method and offset of each query in progress

vars == <<mu, rr, offs, lines, delivered, buf, pc, rdL, nr, qL>>

\* ---- sync.RWMutex ----
\* Lock first excludes other writers and announces itself; from then on
\* RLock blocks; Lock returns once the active readers have left.
\* a shared lock that does not wait for a writer
CanRLock_NoWait == TRUE
CanRLock == mu.writer = None
RLock(q) == [mu EXCEPT !.readers = @ \cup {q}]
RUnlock(q) == [mu EXCEPT !.readers = @ \ {q}]
\* an exclusive lock that does not wait for another writer
CanLockAnnounce_NoWait == TRUE
CanLockAnnounce == mu.writer = None
CanLockAcquire == mu.readers = {}
Unlock == [mu EXCEPT !.writer = None, !.excl = FALSE]

LockAnnounce(w) ==
  /\ pc[w] = "Lock"
  /\ CanLockAnnounce
  /\ mu' = [mu EXCEPT !.writer = w]
  /\ pc' = [pc EXCEPT ![w] = "LockWait"]
  /\ UNCHANGED <<rr, offs, lines, delivered, buf, rdL, nr, qL>>

LockAcquire(w) ==
  /\ pc[w] = "LockWait"
  /\ CanLockAcquire
  /\ mu' = [mu EXCEPT !.excl = TRUE]
  /\ pc' = [pc EXCEPT ![w] = IF w = "rd" THEN "Src" ELSE "SetR"]
  /\ UNCHANGED <<rr, offs, lines, delivered, buf, rdL, nr, qL>>

\* ---- pure helpers ----
\* bytes.IndexByte(p[i:n], '\n'); p is 1-indexed here
RECURSIVE IndexFrom(_, _, _, _)
IndexFrom(p, i, n, j) ==
  IF i + j >= n THEN -1
  ELSE IF p[i + j + 1] = NL THEN j
  ELSE IndexFrom(p, i, n, j + 1)
\* the search starts one byte late
IndexByte_SkipFirst(p, i, n) == IndexFrom(p, i, n, 1)
\* the search runs over p[i:], past the n bytes of this call
IndexByte_WholeBuf(p, i, n) == IndexFrom(p, i, Len(p), 0)
IndexByte(p, i, n) == IndexFrom(p, i, n, 0)

\* the offset of the marker itself instead of the offset after it
LineEnd_Marker(o, i) == Wrap64(o + i - 1)
\* the offset within this call's chunk, r.offs forgotten
LineEnd_ChunkRelative(o, i) == i
\* r.offs+int64(i), the entry Read appends
LineEnd(o, i) == Wrap64(o + i)

\* the loop of Read over p[0:n], started at i with r.offs = o and r.lines = ls
RECURSIVE ScanLoop(_, _, _, _, _)
ScanLoop(p, n, i, o, ls) ==
  IF i < n
  THEN LET j == IndexByte(p, i, n)
       IN IF j < 0 THEN ls
          ELSE ScanLoop(p, n, i + j + 1, o, Append(ls, LineEnd(o, i + j + 1)))
  ELSE ls
\* the index of a new wrapper to which s is delivered by a single Read
OneRead(s) == ScanLoop(s, Len(s), 0, 0, <<>>)

\* a search predicate that also accepts an entry equal to the offset
Before_Inclusive(o, e) == o <= e
\* offs < r.lines[i], the predicate handed to sort.Search
Before(o, e) == o < e

\* sort.Search(n, f): the smallest index in [0, n) for which f holds, by bisection
RECURSIVE SearchLoop(_, _, _, _)
SearchLoop(ls, o, i, j) ==
  IF i < j
  THEN LET h == (i + j) \div 2
       IN IF ~Before(o, ls[h + 1]) THEN SearchLoop(ls, o, h + 1, j)
          ELSE SearchLoop(ls, o, i, h)
  ELSE i
Search(ls, o) == SearchLoop(ls, o, 0, Len(ls))

\* the body of Position for o >= 0
Position(ls, o) ==
  LET i == Search(ls, o)
  IN IF i = 0 THEN <<1, Wrap64(o + 1)>>
     ELSE <<i + 1, Wrap64(o - ls[i] + 1)>>

\* no precondition check: a negative offset is processed like any other
NegativeOffset_Unchecked(o) == FALSE
\* if offs < 0 { panic(...) }
NegativeOffset(o) == o < 0

\* what a query returns from the state it sees: Line and Column decompose
\* Position's pair
QueryResult(op, o) ==
  CASE op = "Position" -> Position(lines, o)
    [] op = "Line" -> <<Position(lines, o)[1]>>
    [] op = "Column" -> <<Position(lines, o)[2]>>
    [] op = "Size" -> <<offs>>

\* the index is kept across the rebind
ResetLines_Keep(ls) == ls
\* r.lines[:0]
ResetLines(ls) == <<>>

\* ---- NewReader ----
NoRead == [k |-> 0, n |-> 0, err |-> "nil", i |-> 0, ret |-> <<>>,
           calls |-> 0, sn |-> 0, serr |-> "nil", sbuf |-> <<>>]
NoQuery == [op |-> "Size", o |-> 0]
NoBuf == [x \in 1 .. BufCap |-> 97]

Init ==
  /\ mu = [writer |-> None, excl |-> FALSE, readers |-> {}]
  /\ rr \in Sources
  /\ offs = 0
  /\ lines = <<>>
  /\ delivered = <<>>
  /\ buf = NoBuf
  /\ pc = [t \in Threads |-> "idle"]
  /\ rdL = NoRead
  /\ nr = <<>>
  /\ qL = [q \in Queriers |-> NoQuery]

\* ---- Read ----
\* an error is dropped when bytes were delivered with it
ReadResult_DropErr(l) == <<l.n, IF l.n > 0 THEN "nil" ELSE l.err>>
\* return n, err
ReadResult(l) == <<l.n, l.err>>

ReadCall ==
  /\ pc["rd"] = "idle"
  /\ pc' = [pc EXCEPT !["rd"] = "Lock"]
  /\ UNCHANGED <<mu, rr, offs, lines, delivered, buf, rdL, nr, qL>>

\* n, err = r.r.Read(p) with len(p) = k: the source yields any n <= k of its
\* next bytes into p[0:n], together with any error; the rest of p keeps the
\* bytes old it held before the call (the array beyond p is out of reach)
ReadSrc(k) ==
  /\ pc["rd"] = "Src"
  /\ \E n \in 0 .. Min(k, Len(rr)), e \in Errs, old \in [1 .. BufCap -> Bytes] :
       /\ buf' = [x \in 1 .. BufCap |->
                    IF x <= n THEN rr[x] ELSE IF x <= k THEN old[x] ELSE 97]
       /\ rr' = SubSeq(rr, n + 1, Len(rr))
       /\ delivered' = delivered \o SubSeq(rr, 1, n)
       /\ rdL' = [rdL EXCEPT !.k = k, !.n = n, !.err = e, !.calls = @ + 1,
                             !.sn = n, !.serr = e, !.sbuf = buf']
  /\ pc' = [pc EXCEPT !["rd"] = "Scan"]
  /\ UNCHANGED <<mu, offs, lines, nr, qL>>

\* the scan is skipped when the source returned an error
ReadScan_SkipOnErr ==
  /\ pc["rd"] = "Scan"
  /\ IF rdL.i < rdL.n /\ rdL.err = "nil"
     THEN LET j == IndexByte(buf, rdL.i, rdL.n)
          IN IF j < 0
             THEN /\ pc' = [pc EXCEPT !["rd"] = "Adv"]
                  /\ UNCHANGED <<rdL, lines>>
             ELSE /\ rdL' = [rdL EXCEPT !.i = @ + j + 1]
                  /\ lines' = Append(lines, LineEnd(offs, rdL.i + j + 1))
                  /\ UNCHANGED pc
     ELSE /\ pc' = [pc EXCEPT !["rd"] = "Adv"]
          /\ UNCHANGED <<rdL, lines>>
  /\ UNCHANGED <<mu, rr, offs, delivered, buf, nr, qL>>

\* one iteration of the scan loop
ReadScan ==
  /\ pc["rd"] = "Scan"
  /\ IF rdL.i < rdL.n
     THEN LET j == IndexByte(buf, rdL.i, rdL.n)
          IN IF j < 0
             THEN /\ pc' = [pc EXCEPT !["rd"] = "Adv"]
                  /\ UNCHANGED <<rdL, lines>>
             ELSE /\ rdL' = [rdL EXCEPT !.i = @ + j + 1]
                  /\ lines' = Append(lines, LineEnd(offs, rdL.i + j + 1))
                  /\ UNCHANGED pc
     ELSE /\ pc' = [pc EXCEPT !["rd"] = "Adv"]
          /\ UNCHANGED <<rdL, lines>>
  /\ UNCHANGED <<mu, rr, offs, delivered, buf, nr, qL>>

\* r.offs = int64(n): the count of this call replaces the total
ReadAdv_Assign ==
  /\ pc["rd"] = "Adv"
  /\ offs' = rdL.n
  /\ rdL' = [rdL EXCEPT !.ret = ReadResult(rdL)]
  /\ pc' = [pc EXCEPT !["rd"] = "Ret"]
  /\ UNCHANGED <<mu, rr, lines, delivered, buf, nr, qL>>

\* r.offs += int64(n); return n, err sets the results
ReadAdv ==
  /\ pc["rd"] = "Adv"
  /\ offs' = Wrap64(offs + rdL.n)
  /\ rdL' = [rdL EXCEPT !.ret = ReadResult(rdL)]
  /\ pc' = [pc EXCEPT !["rd"] = "Ret"]
  /\ UNCHANGED <<mu, rr, lines, delivered, buf, nr, qL>>

\* the deferred r.mu.Unlock() runs and the caller gets rdL.ret
ReadReturn ==
  /\ pc["rd"] = "Ret"
  /\ mu' = Unlock
  /\ rdL' = NoRead
  /\ buf' = NoBuf
  /\ pc' = [pc EXCEPT !["rd"] = "idle"]
  /\ UNCHANGED <<rr, offs, lines, delivered, nr, qL>>

\* ---- Reset ----
ResetCall ==
  /\ pc["rs"] = "idle"
  /\ pc' = [pc EXCEPT !["rs"] = "Lock"]
  /\ UNCHANGED <<mu, rr, offs, lines, delivered, buf, rdL, nr, qL>>

\* r.r = nr
ResetSetR(s) ==
  /\ pc["rs"] = "SetR"
  /\ nr' = s
  /\ rr' = s
  /\ delivered' = <<>>
  /\ pc' = [pc EXCEPT !["rs"] = "SetOffs"]
  /\ UNCHANGED <<mu, offs, lines, buf, rdL, qL>>

\* r.offs = 0
ResetSetOffs ==
  /\ pc["rs"] = "SetOffs"
  /\ offs' = 0
  /\ pc' = [pc EXCEPT !["rs"] = "SetLines"]
  /\ UNCHANGED <<mu, rr, lines, delivered, buf, rdL, nr, qL>>

\* r.lines = r.lines[:0]
ResetSetLines ==
  /\ pc["rs"] = "SetLines"
  /\ lines' = ResetLines(lines)
  /\ pc' = [pc EXCEPT !["rs"] = "Ret"]
  /\ UNCHANGED <<mu, rr, offs, delivered, buf, rdL, nr, qL>>

\* the deferred r.mu.Unlock()
ResetReturn ==
  /\ pc["rs"] = "Ret"
  /\ mu' = Unlock
  /\ nr' = <<>>
  /\ pc' = [pc EXCEPT !["rs"] = "idle"]
  /\ UNCHANGED <<rr, offs, lines, delivered, buf, rdL, qL>>

\* ---- Size, Position, Line, Column ----
QueryCall(q) ==
  /\ pc[q] = "idle"
  /\ pc' = [pc EXCEPT ![q] = "RLock"]
  /\ UNCHANGED <<mu, rr, offs, lines, delivered, buf, rdL, nr, qL>>

\* r.mu.RLock() of method op called with offset o
QueryRLock(q, op, o) ==
  /\ pc[q] = "RLock"
  /\ CanRLock
  /\ mu' = RLock(q)
  /\ qL' = [qL EXCEPT ![q] = [op |-> op, o |-> IF op = "Size" THEN 0 ELSE o]]
  /\ pc' = [pc EXCEPT ![q] = "Body"]
  /\ UNCHANGED <<rr, offs, lines, delivered, buf, rdL, nr>>

\* the call panics instead of returning
Panics(q) == qL[q].op # "Size" /\ NegativeOffset(qL[q].o)
\* the value the call returns
Returns(q) == QueryResult(qL[q].op, qL[q].o)

\* RUnlock at the end of the body instead of deferred: a panic skips it
QueryBody_NoDefer(q) ==
  /\ pc[q] = "Body"
  /\ pc' = [pc EXCEPT ![q] = IF Panics(q) THEN "Panic" ELSE "idle"]
  /\ mu' = IF Panics(q) THEN mu ELSE RUnlock(q)
  /\ qL' = [qL EXCEPT ![q] = NoQuery]
  /\ UNCHANGED <<rr, offs, lines, delivered, buf, rdL, nr>>

\* a query that drops the index entries above its offset
QueryBody_Truncate(q) ==
  /\ pc[q] = "Body"
  /\ pc' = [pc EXCEPT ![q] = IF Panics(q) THEN "Panic" ELSE "idle"]
  /\ mu' = RUnlock(q)
  /\ qL' = [qL EXCEPT ![q] = NoQuery]
  /\ lines' = IF qL[q].op = "Size" THEN lines
              ELSE SubSeq(lines, 1, Search(lines, qL[q].o))
  /\ UNCHANGED <<rr, offs, delivered, buf, rdL, nr>>

\* the body under the shared lock, then the deferred r.mu.RUnlock(), which
\* also runs when the body panics: the call returns Returns(q), or unwinds
QueryBody(q) ==
  /\ pc[q] = "Body"
  /\ pc' = [pc EXCEPT ![q] = IF Panics(q) THEN "Panic" ELSE "idle"]
  /\ mu' = RUnlock(q)
  /\ qL' = [qL EXCEPT ![q] = NoQuery]
  /\ UNCHANGED <<rr, offs, lines, delivered, buf, rdL, nr>>

\* the caller recovers from the panic
QueryRecover(q) ==
  /\ pc[q] = "Panic"
  /\ pc' = [pc EXCEPT ![q] = "idle"]
  /\ UNCHANGED <<mu, rr, offs, lines, delivered, buf, rdL, nr, qL>>

Next ==
  \/ ReadCall
  \/ \E w \in Writers : LockAnnounce(w)
  \/ \E w \in Writers : LockAcquire(w)
  \/ \E k \in 0 .. BufCap : ReadSrc(k)
  \/ ReadScan
  \/ ReadAdv
  \/ ReadReturn
  \/ ResetCall
  \/ \E s \in Sources : ResetSetR(s)
  \/ ResetSetOffs
  \/ ResetSetLines
  \/ ResetReturn
  \/ \E q \in Queriers : QueryCall(q)
  \/ \E q \in Queriers, op \in QueryOps, o \in QueryOffsets : QueryRLock(q, op, o)
  \/ \E q \in Queriers : QueryBody(q)
  \/ \E q \in Queriers : QueryRecover(q)

Spec == Init /\ [][Next]_vars

\* Scheduling: a goroutine inside a method keeps running, and every call
\* into the wrapped source returns (weak fairness of the steps that wait for
\* nothing).  A goroutine waiting in Lock or RLock is served: sync.Mutex
\* hands the lock to a starving waiter and Unlock admits the readers that
\* queued behind the writer (strong fairness of the acquisitions that
\* other goroutines can disable).
\* The progress of the lock does not depend on the bytes read: the fair
\* specification binds short sources and queries the offsets -1 and 0.
LiveSources == {s \in Sources : Len(s) <= LiveLen}
LiveOffsets == {o \in QueryOffsets : o <= 0}

LiveInit == Init /\ rr \in LiveSources

LiveNext ==
  \/ ReadCall
  \/ \E w \in Writers : LockAnnounce(w)
  \/ \E w \in Writers : LockAcquire(w)
  \/ \E k \in 0 .. BufCap : ReadSrc(k)
  \/ ReadScan
  \/ ReadAdv
  \/ ReadReturn
  \/ ResetCall
  \/ \E s \in LiveSources : ResetSetR(s)
  \/ ResetSetOffs
  \/ ResetSetLines
  \/ ResetReturn
  \/ \E q \in Queriers : QueryCall(q)
  \/ \E q \in Queriers, op \in QueryOps, o \in LiveOffsets : QueryRLock(q, op, o)
  \/ \E q \in Queriers : QueryBody(q)
  \/ \E q \in Queriers : QueryRecover(q)

Fairness ==
  /\ \A w \in Writers : SF_vars(LockAnnounce(w)) /\ WF_vars(LockAcquire(w))
  /\ WF_vars(\E k \in 0 .. BufCap : ReadSrc(k))
  /\ WF_vars(ReadScan) /\ WF_vars(ReadAdv) /\ WF_vars(ReadReturn)
  /\ WF_vars(\E s \in LiveSources : ResetSetR(s))
  /\ WF_vars(ResetSetOffs) /\ WF_vars(ResetSetLines) /\ WF_vars(ResetReturn)
  /\ \A q \in Queriers :
       /\ SF_vars(\E op \in QueryOps, o \in LiveOffsets : QueryRLock(q, op, o))
       /\ WF_vars(QueryBody(q))
FairSpec == LiveInit /\ [][LiveNext]_vars /\ Fairness

TypeOK ==
  /\ mu.writer \in Writers \cup {None}
  /\ mu.readers \subseteq Queriers
  /\ Len(rr) + Len(delivered) <= MaxLen
  /\ Len(buf) = BufCap
\* ---- properties ----
\* no writer is between its Lock and its Unlock, or one is at its return with
\* its whole update made
Settled == ~mu.excl \/ pc["rd"] = "Ret" \/ pc["rs"] = "Ret"

StrictlyIncreasing(ls) == \A a, b \in DOMAIN ls : a < b => ls[a] < ls[b]
\* number of index entries <= o
CountLE(ls, o) == Cardinality({k \in DOMAIN ls : ls[k] <= o})
\* number of '\n' among bytes [0, o) of s
NewlinesBefore(s, o) == Cardinality({k \in 1 .. Min(o, Len(s)) : s[k] = NL})
\* offset at which the line containing offset m starts
LineStart(s, m) ==
  LET prev == {k \in 1 .. Min(m, Len(s)) : s[k] = NL}
  IN IF prev = {} THEN 0 ELSE CHOOSE k \in prev : \A x \in prev : x <= k

\* C1: while Read is inside the source's read the wrapper's lock is not held,
\* so a query waiting for the shared lock can acquire it.
C1_SourceCallUnlocked ==
  pc["rd"] = "Src" => (~mu.excl /\ CanRLock)

\* C2: once the Read and Reset calls made so far have completed, for every
\* offset o < Size() the line of Position(o) is 1 + the number of index
\* entries <= o, which is 1 + the number of '\n' in bytes [0, o) delivered
\* from the bound source.
C2_LineCountsNewlines ==
  Settled =>
    /\ offs = Len(delivered)
    /\ \A o \in 0 .. offs - 1 :
         /\ Position(lines, o)[1] = 1 + CountLE(lines, o)
         /\ Position(lines, o)[1] = 1 + NewlinesBefore(delivered, o)
C2_Witness ==
  /\ pc["rd"] = "Ret" /\ rdL.n = 0
  /\ offs = 3 /\ Len(lines) = 2 /\ lines[2] = 3

\* C3: however the delivery of s was cut into Read calls, the index and every
\* Position(o), o < len(s), are those of s delivered by a single Read.
C3_ChunkIndependent ==
  Settled =>
    /\ lines = OneRead(delivered)
    /\ \A o \in 0 .. Len(delivered) - 1 :
         Position(lines, o) = Position(OneRead(delivered), o)
\* a chunk of one byte that is the '\n', after a chunk ending just before it
C3_Witness ==
  /\ pc["rd"] = "Ret" /\ rdL.n = 1 /\ buf[1] = NL
  /\ delivered = <<NL, 97, NL>> /\ lines = <<1, 3>>

\* C4: Read returns the byte count and error of its one call to the source
\* and leaves the bytes that call put in the buffer unchanged.
C4_PassThrough ==
  pc["rd"] = "Ret" =>
    /\ rdL.ret = <<rdL.sn, rdL.serr>>
    /\ rdL.calls = 1
    /\ buf = rdL.sbuf
\* bytes delivered together with an error
C4_Witness ==
  /\ pc["rd"] = "Ret" /\ rdL.sn = 2 /\ rdL.serr = "err" /\ Len(lines) > 0

\* C5: Position, Line and Column called with a negative offset panic and
\* return nothing; the panicking call changes neither the source, nor
\* bytesConsumed, nor the index, and it releases the shared lock.
C5_NegativeOffsetPanics ==
  /\ [](\A q \in Queriers : pc[q] = "Panic" => q \notin mu.readers)
  /\ [][\A q \in Queriers :
          (pc[q] = "Body" /\ qL[q].op # "Size" /\ qL[q].o < 0 /\ pc'[q] # "Body")
          => /\ pc'[q] = "Panic"
             /\ q \notin mu'.readers
             /\ UNCHANGED <<rr, offs, lines>>]_vars
\* a writer took the lock after the panic
C5_Witness ==
  /\ pc["q1"] = "Panic" /\ mu.excl /\ pc["rd"] = "Scan"
  /\ pc["q2"] = "idle" /\ Len(lines) > 0
\* C6: when Reset(nr) returns, bytesConsumed is 0, the index is empty, the
\* bound source is nr, and Position(o) is (1, o+1) for every o >= 0.
C6_ResetClears ==
  pc["rs"] = "Ret" =>
    /\ offs = 0 /\ lines = <<>> /\ rr = nr /\ delivered = <<>>
    /\ \A o \in 0 .. MaxInt64 : Position(lines, o) = <<1, o + 1>>

\* C7: a query holding the shared lock excludes every writer and sees the
\* state between two updates: no index entry above bytesConsumed, no
\* bytesConsumed of 0 with a non-empty index.
C7_QueriesSeeWholeUpdates ==
  /\ \A q \in Queriers : pc[q] = "Body" <=> q \in mu.readers
  /\ mu.readers # {} =>
       /\ ~mu.excl
       /\ \A k \in DOMAIN lines : lines[k] <= offs
       /\ offs = 0 => lines = <<>>
       /\ offs = Len(delivered) /\ lines = OneRead(delivered)
\* two queries hold the shared lock while Read waits for it
C7_Witness ==
  /\ mu.readers = Queriers /\ pc["rd"] = "LockWait"
  /\ Len(lines) > 0 /\ qL["q1"].op = "Position" /\ qL["q2"].op = "Size"

\* C8: in every reachable state the index is strictly increasing.
C8_IndexStrictlyIncreasing == StrictlyIncreasing(lines)
\* Read appends a second entry in one scan, on a binding made by Reset
C8_Witness ==
  /\ pc["rd"] = "Scan" /\ rdL.i = 2 /\ Len(lines) = 2
  /\ offs = 0 /\ pc["rs"] = "Lock"

\* C9: a consumed '\n' at offset m whose line starts at s is on the line of
\* s at column m - s + 1, and a consumed offset m + 1 is on the next line at
\* column 1.
C9_MarkerEndsItsLine ==
  Settled =>
    \A m \in 0 .. Len(delivered) - 1 :
      delivered[m + 1] = NL =>
        LET s == LineStart(delivered, m)
        IN /\ Position(lines, m) = <<Position(lines, s)[1], m - s + 1>>
           /\ m + 1 < offs =>
                Position(lines, m + 1) = <<Position(lines, s)[1] + 1, 1>>
\* the second line is the single '\n' at offset 1, and offset 2 is consumed
C9_Witness ==
  /\ ~mu.excl /\ delivered = <<NL, NL, 97>> /\ offs = 3 /\ lines = <<1, 2>>

\* C10: for every offset o >= 0, up to the largest, Position(o) returns
\* line >= 1 and column >= 1.
C10_OneBased ==
  \A q \in Queriers :
    (pc[q] = "Body" /\ qL[q].op = "Position" /\ qL[q].o >= 0) =>
      (Returns(q)[1] >= 1 /\ Returns(q)[2] >= 1)
\* C11: for every offset o >= Size(), Position(o) returns the last known
\* line, (number of recorded line breaks) + 1, with column
\* o - (last recorded line-break offset) + 1, or (1, o + 1) when no line
\* break is recorded.
C11_StaleQuery ==
  Settled =>
    \A o \in offs .. MaxInt64 :
      Position(lines, o) =
        IF lines = <<>> THEN <<1, o + 1>>
        ELSE <<Len(lines) + 1, o - lines[Len(lines)] + 1>>

\* C12: a step of Position, Line, Column or Size leaves the bound source,
\* bytesConsumed and the index unchanged, and with them the result of every
\* query.
C12_QueriesChangeNothing ==
  [][(\E q \in Queriers : pc'[q] # pc[q]) =>
       /\ UNCHANGED <<rr, offs, lines, delivered>>
       /\ \A o \in QueryOffsets \ {-1} :
            Position(lines', o) = Position(lines, o)]_vars
\* a Position query below the last index entry holds the shared lock
C12_Witness ==
  /\ pc["q1"] = "Body" /\ qL["q1"].op = "Position" /\ qL["q1"].o = 1
  /\ lines = <<1, 2, 3>>

\* C13: cut at the index offsets, the delivered bytes fall into segments
\* whose concatenation is the delivered bytes: each segment but the last
\* ends with its only '\n', the last has none, and there are as many index
\* entries as '\n' bytes delivered.
Cut(k) == IF k = 0 THEN 0 ELSE IF k <= Len(lines) THEN lines[k] ELSE offs
Segment(k) == SubSeq(delivered, Cut(k - 1) + 1, Cut(k))
RECURSIVE Concat(_)
Concat(k) == IF k = 0 THEN <<>> ELSE Concat(k - 1) \o Segment(k)
C13_RoundTrip ==
  Settled =>
    /\ Concat(Len(lines) + 1) = delivered
    /\ \A k \in 1 .. Len(lines) :
         /\ Segment(k) # <<>>
         /\ \A x \in 1 .. Len(Segment(k)) :
              Segment(k)[x] = NL <=> x = Len(Segment(k))
    /\ \A x \in 1 .. Len(Segment(Len(lines) + 1)) :
         Segment(Len(lines) + 1)[x] # NL
    /\ Len(lines) = NewlinesBefore(delivered, Len(delivered))
\* an empty line between two segments, and a last segment without '\n'
C13_Witness ==
  /\ ~mu.excl /\ delivered = <<NL, NL, 97>> /\ Len(lines) = 2
\* C14: r, offs and lines change only in steps of Read and Reset; a step of
\* Read keeps the recorded entries as a prefix and never lowers offs, which
\* grows by exactly the returned count; only Reset lowers offs or the number
\* of entries, and it sets both to 0.
IsPrefix(a, b) == Len(a) <= Len(b) /\ SubSeq(b, 1, Len(a)) = a
ReadWrites == pc["rd"] \in {"Src", "Scan", "Adv"} /\ pc'["rd"] # "Src"
ResetWrites == pc["rs"] \in {"SetR", "SetOffs", "SetLines"} /\ pc'["rs"] # pc["rs"]
C14_AppendOnly ==
  /\ [](pc["rs"] = "Ret" => offs = 0 /\ lines = <<>>)
  /\ [][/\ <<rr, offs, lines>>' # <<rr, offs, lines>> => ReadWrites \/ ResetWrites
        /\ ReadWrites => offs' >= offs /\ IsPrefix(lines, lines')
        /\ (pc["rd"] = "Adv" /\ pc'["rd"] = "Ret") =>
             offs' = offs + rdL.n /\ rdL'.ret[1] = rdL.n
        /\ offs' < offs => ResetWrites /\ offs' = 0
        /\ Len(lines') < Len(lines) => ResetWrites /\ lines' = <<>>]_vars
\* Read returns 1 after adding an entry to two recorded ones
C14_Witness ==
  /\ pc["rd"] = "Ret" /\ rdL.ret[1] = 1 /\ offs = 3 /\ lines = <<1, 2, 3>>

\* C15: in every reachable state Position(0) is (1, 1).
C15_OffsetZero ==
  /\ Position(lines, 0) = <<1, 1>>
  /\ \A q \in Queriers :
       (pc[q] = "Body" /\ qL[q].op = "Position" /\ qL[q].o = 0) =>
         Returns(q) = <<1, 1>>
\* the first byte is a '\n' and three lines are recorded
C15_Witness ==
  /\ pc["q2"] = "Body" /\ qL["q2"].op = "Position" /\ qL["q2"].o = 0
  /\ delivered = <<NL, NL, NL>> /\ Len(lines) = 3

\* C16: when the source returns n bytes with an error, offs has grown by n,
\* the entries added are those of the '\n' among these n bytes, and for
\* n = 0 no step of the Read changes the wrapper state.
NewEntries(p, n, o) ==
  LET F[k \in 0 .. n] ==
        IF k = 0 THEN <<>>
        ELSE IF p[k] = NL THEN Append(F[k - 1], o + k) ELSE F[k - 1]
  IN F[n]
C16_ErrorAccounting ==
  /\ []((pc["rd"] = "Ret" /\ rdL.serr # "nil") =>
          LET n == rdL.sn
              o == offs - n
          IN /\ offs = Len(delivered)
             /\ SubSeq(delivered, o + 1, offs) = SubSeq(buf, 1, n)
             /\ SelectSeq(lines, LAMBDA e : e > o) = NewEntries(buf, n, o)
             /\ lines = OneRead(SubSeq(delivered, 1, o)) \o NewEntries(buf, n, o))
  /\ [][/\ (pc["rd"] = "Src" /\ pc'["rd"] = "Scan" /\ rdL'.sn = 0) =>
             UNCHANGED <<rr, offs, lines, delivered>>
        /\ (pc["rd"] \in {"Scan", "Adv"} /\ rdL.sn = 0) =>
             UNCHANGED <<rr, offs, lines, delivered, buf>>]_vars
\* the source returns a '\n' together with EOF
C16_Witness ==
  /\ pc["rd"] = "Ret" /\ rdL.serr = "EOF" /\ rdL.sn = 1 /\ buf[1] = NL
  /\ offs = 3 /\ lines = <<1, 3>>

\* C17: the scan records every '\n' at an index k < n once, as
\* bytesConsumedBeforeThisCall + k + 1 in increasing order of k, and no '\n'
\* at an index >= n.
C17_ScansOnlyNewBytes ==
  pc["rd"] = "Adv" =>
    /\ SelectSeq(lines, LAMBDA e : e > offs) = NewEntries(buf, rdL.n, offs)
    /\ \A k \in DOMAIN lines : lines[k] <= offs + rdL.n
\* one byte read into a buffer that still holds a '\n' at index 1
C17_Witness ==
  /\ pc["rd"] = "Adv" /\ rdL.n = 1 /\ buf = <<NL, NL>>
  /\ offs = 2 /\ lines = <<2, 3>>

\* C18: Read and Reset are never inside their critical sections together,
\* and the bytes a Read got from the source are counted on the binding they
\* came from.
InRead == pc["rd"] \in {"Src", "Scan", "Adv", "Ret"}
InReset == pc["rs"] \in {"SetR", "SetOffs", "SetLines", "Ret"}
C18_ResetAtomic ==
  /\ ~(InRead /\ InReset)
  /\ (InRead \/ InReset) => mu.excl
  /\ pc["rd"] \in {"Scan", "Adv"} =>
       /\ Len(delivered) = offs + rdL.n
       /\ SubSeq(delivered, offs + 1, offs + rdL.n) = SubSeq(buf, 1, rdL.n)
       /\ SelectSeq(lines, LAMBDA e : e <= offs) = OneRead(SubSeq(delivered, 1, offs))
  /\ pc["rd"] = "Ret" => offs = Len(delivered) /\ lines = OneRead(delivered)
\* Reset is called while a Read scans the bytes it got
C18_Witness ==
  /\ pc["rd"] = "Scan" /\ rdL.n = 2 /\ pc["rs"] = "Lock" /\ offs = 1

\* C19: across every step that is not one of Reset's assignments, an offset
\* below Size() stays below it and Position of it stays the same.
C19_StableAnswers ==
  [][~ResetWrites =>
       \A o \in 0 .. offs - 1 :
         o < offs' /\ Position(lines', o) = Position(lines, o)]_vars
\* Read appends an entry above the consumed offsets
C19_Witness ==
  /\ pc["rd"] = "Scan" /\ offs = 2 /\ lines = <<1, 3>>
\* C20: under fair scheduling, with a source that returns, every started
\* Read and Reset completes and unlocks, every started query returns or
\* panics with the shared lock released, and in no state are all the
\* started calls blocked.
CanStep ==
  \/ \E w \in Writers : pc[w] = "Lock" /\ CanLockAnnounce
  \/ \E w \in Writers : pc[w] = "LockWait" /\ CanLockAcquire
  \/ \E q \in Queriers : pc[q] = "RLock" /\ CanRLock
  \/ \E t \in Threads : pc[t] \notin {"idle", "Panic", "Lock", "LockWait", "RLock"}
C20_NoLockStarvation ==
  /\ []((\E t \in Threads : pc[t] \notin {"idle", "Panic"}) => CanStep)
  /\ \A w \in Writers :
       pc[w] = "Lock" ~> (pc[w] = "idle" /\ mu.writer # w)
  /\ \A q \in Queriers :
       pc[q] = "RLock" ~> (pc[q] \in {"idle", "Panic"} /\ q \notin mu.readers)
\* every context waits for the lock that a reader took before it panicked
\* and released
C20_Witness ==
  /\ pc["q1"] = "Panic" /\ pc["q2"] = "RLock"
  /\ pc["rd"] = "LockWait" /\ pc["rs"] = "Lock" /\ mu.readers = {}
====
